---- MODULE Spec2Model ----
(***************************************************************************)
(* Model of the paginated resource synchronizer of the gitlab-v2           *)
(* integration:                                                            *)
(*   - RestClient._make_paginated_request   (clients/rest_client.py)       *)
(*   - GraphQLClient._execute_paginated_query, _fetch_paginated_fields,    *)
(*     _paginate_field, _process_nested_fields (clients/graphql_client.py) *)
(* Each coroutine / async generator is a small state machine whose         *)
(* suspension points are the awaits and yields of the source.              *)
(***************************************************************************)
EXTENDS Integers, Sequences, FiniteSets, TLC

(***************************************************************************)
(* Bounds of the model.                                                    *)
(***************************************************************************)
\* Slots of the limiter: asyncio.Semaphore(50) in the source, scaled down so
\* that a batch of BatchSize records can exceed it.
K == 2
\* Remote pages a nested field may be re-queried for (pages after the first).
MaxPages == 2

\* Top-level batches whose records the merger may be handed.
MaxTop == 2

\* Largest page_size the REST paginator is run with.
MaxPageSize == 2
\* Pages the REST server serves before it must answer with a short page.
MaxRestPages == 4
\* Queries the GraphQL server answers before it must report the last page.
MaxTopPages == 3

\* Ids of the records in the batch handed to _process_nested_fields (more
\* records than the limiter has slots).
ParentIds == {1, 2, 3}

BatchSize == Cardinality(ParentIds)

Null == "null"

(***************************************************************************)
(* Data: records, nested collections, page info.                           *)
(***************************************************************************)
PageInfo(has, cur) == [hasNextPage |-> has, endCursor |-> cur]

NoPageInfo == PageInfo(FALSE, Null)

\* A field of a record: a scalar, a {nodes, pageInfo} dict, or a dict that has
\* "nodes" but no "pageInfo".
Scalar(name) == [name |-> name, kind |-> "scalar", nodes |-> <<>>, pageInfo |-> NoPageInfo]

Coll(name, nodes, has, cur) ==
    [name |-> name, kind |-> "coll", nodes |-> nodes, pageInfo |-> PageInfo(has, cur)]

NodesOnly(name, nodes) ==
    [name |-> name, kind |-> "nodesOnly", nodes |-> nodes, pageInfo |-> NoPageInfo]

\* Items the server holds on page n of a field: two items, in server order.
FieldBase(name) == IF name = "labels" THEN 0 ELSE 100

PageItems(name, n) == << FieldBase(name) + 10 * n + 1, FieldBase(name) + 10 * n + 2 >>

\* The field dicts a record of the batch may carry (in dict order): no nested
\* collection; a collection with more pages; an empty, finished collection; a
\* collection that claims more pages but has no cursor; a one-page collection;
\* two collections; a collection beside a dict with "nodes" but no "pageInfo".
RecordShapes ==
    { << Scalar("name") >>,
      << Coll("labels", PageItems("labels", 1), TRUE, "c") >>,
      << Coll("labels", << >>, FALSE, Null) >>,
      << Coll("labels", PageItems("labels", 1), TRUE, Null) >>,
      << Coll("labels", PageItems("labels", 1), FALSE, "c") >>,
      << Coll("labels", PageItems("labels", 1), TRUE, "c"),
         Coll("members", PageItems("members", 1), TRUE, "c") >>,
      << Coll("labels", << >>, FALSE, Null),
         NodesOnly("extra", << 7 >>) >> }

Record(id, fields) == [id |-> id, fields |-> fields]

FieldIndex(rec, name) == CHOOSE j \in 1..Len(rec.fields) : rec.fields[j].name = name

FieldOf(rec, name) == rec.fields[FieldIndex(rec, name)]


(***************************************************************************)
(* State.                                                                  *)
(***************************************************************************)
VARIABLES
    projects,     \* _process_nested_fields: the batch, record i mutated in place
    gens,         \* per record, its _fetch_paginated_fields generator
    active_data,  \* indices of the (project, field_iter) pairs still active
    mpc,          \* where _process_nested_fields stands
    tasks,        \* the bounded_anext tasks of the current wave
    ti,           \* next task the event loop starts
    sem,          \* asyncio.Semaphore: free slots
    out,          \* snapshots yielded so far
    batch,        \* the batch as it was handed over (never written)
    trace,        \* per record, what its stream did: yields, calls, its end
    mpulls,       \* anext calls the consumer has made on _process_nested_fields
    top,          \* which batch of the top-level sequence the merger was handed
    rpc,          \* where _make_paginated_request stands
    page_size,    \* its page_size argument
    page,         \* its page counter
    response,     \* its last response
    rout,         \* batches it has yielded
    rlog,         \* requests it has sent: (page, per_page)
    rsrv,         \* responses the REST server has given
    rpulls,       \* anext calls the consumer has made on _make_paginated_request
    cpc,          \* where _execute_paginated_query stands
    cursor,       \* its cursor
    resource_data,\* its last response's resource_data
    cout,         \* (nodes, nested_field_generators) pairs it has yielded
    clog,         \* the cursor variable of each query it has sent
    csrv,         \* responses the GraphQL server has given to it
    variables,    \* its variables argument
    cpulls        \* anext calls the consumer has made on it

mvars == << projects, gens, active_data, mpc, tasks, ti, sem, out, batch, trace, mpulls,
           top >>

rvars == << rpc, page_size, page, response, rout, rlog, rsrv, rpulls >>

cvars == << cpc, cursor, resource_data, cout, clog, csrv, variables, cpulls >>

vars == << mvars, rvars, cvars >>

(***************************************************************************)
(* The nested field stream: _fetch_paginated_fields driving one            *)
(* _paginate_field generator per {nodes, pageInfo} field.                  *)
(***************************************************************************)
NewGen == [pc |-> "new", fgens |-> << >>, page_info |-> NoPageInfo, cursor |-> Null, n |-> 0]

NoResult == [kind |-> "none", field |-> "", nodes |-> << >>, alias |-> FALSE]

\* isinstance(value, dict) and "nodes" in value and "pageInfo" in value
IsPaginatedField(fd) == fd.kind = "coll"

\* The list field_generators, as the field names in dict order.
FieldGenerators(rec) ==
    LET sel == SelectSeq(rec.fields, IsPaginatedField)
    IN  [j \in 1..Len(sel) |-> sel[j].name]

\* The for loop of _fetch_paginated_fields entering the next _paginate_field,
\* which yields the page the parent already carries (the parent's own list).
StartField(rec, g, fgens) ==
    IF fgens = << >>
    THEN [gen |-> [g EXCEPT !.pc = "done", !.fgens = << >>],
          kind |-> "stop", field |-> "", nodes |-> << >>, alias |-> FALSE]
    ELSE LET fd == FieldOf(rec, Head(fgens))
         IN  [gen |-> [pc |-> "yielded", fgens |-> fgens, page_info |-> fd.pageInfo,
                       cursor |-> Null, n |-> 1],
              kind |-> "item", field |-> Head(fgens), nodes |-> fd.nodes, alias |-> TRUE]

\* Mutant: the loop runs while there is a cursor.
HasNextPageByCursor(page_info) == page_info.endCursor # Null

\* while page_info["hasNextPage"]
HasNextPage(page_info) == page_info.hasNextPage

\* Mutant: no break on a missing cursor.
ResumeFieldNoBreak(rec, g) ==
    IF HasNextPage(g.page_info)
    THEN [gen |-> [g EXCEPT !.pc = "awaiting", !.cursor = g.page_info.endCursor],
          kind |-> "call", field |-> Head(g.fgens), nodes |-> << >>, alias |-> FALSE]
    ELSE StartField(rec, g, Tail(g.fgens))

\* _paginate_field resumed after a yield: cursor = page_info["endCursor"], the
\* while test, the missing-cursor break, else the request is issued.
ResumeField(rec, g) ==
    LET end_cursor == g.page_info.endCursor
    IN  IF HasNextPage(g.page_info)
        THEN IF end_cursor = Null
             THEN StartField(rec, g, Tail(g.fgens))
             ELSE [gen |-> [g EXCEPT !.pc = "awaiting", !.cursor = end_cursor],
                   kind |-> "call", field |-> Head(g.fgens), nodes |-> << >>,
                   alias |-> FALSE]
        ELSE StartField(rec, g, Tail(g.fgens))

\* anext(field_iter) up to the stream's next suspension.
Anext(rec, g) ==
    CASE g.pc = "new" -> StartField(rec, g, FieldGenerators(rec))
      [] g.pc = "yielded" -> ResumeField(rec, g)
      [] OTHER -> [gen |-> g, kind |-> "stop", field |-> "", nodes |-> << >>,
                   alias |-> FALSE]

\* next(resource[field_name] for resource in resource_nodes if resource["id"] == parent_id)
Matching(resp, id) == { j \in 1..Len(resp.nodes) : resp.nodes[j].id = id }

\* Mutant: the field is read from the first record of the response.
FirstMatchFirstRecord(resp, id) == resp.nodes[1]

FirstMatch(resp, id) ==
    resp.nodes[CHOOSE j \in Matching(resp, id) : \A l \in Matching(resp, id) : j <= l]

\* _paginate_field resumed when _execute_query resolves: an exception (raised
\* by the query, or by next() finding no record with the parent's id) ends the
\* stream; otherwise the matching record's page is yielded.
OnResponse(rec, g, resp) ==
    IF resp.kind = "error" \/ Matching(resp, rec.id) = {}
    THEN [gen |-> [g EXCEPT !.pc = "done", !.fgens = << >>],
          kind |-> "exc", field |-> Head(g.fgens), nodes |-> << >>, alias |-> FALSE]
    ELSE LET data == FirstMatch(resp, rec.id)
         IN  [gen |-> [g EXCEPT !.pc = "yielded", !.page_info = data.pageInfo,
                                !.n = g.n + 1],
              kind |-> "item", field |-> Head(g.fgens), nodes |-> data.nodes,
              alias |-> FALSE]

(***************************************************************************)
(* The remote server, as seen by one re-query of a nested field.           *)
(***************************************************************************)
SiblingId(id) == (id % BatchSize) + 1

Decoy(id) == [id |-> SiblingId(id), nodes |-> << 91, 92 >>, pageInfo |-> NoPageInfo]

\* Page infos the server may attach to page n + 1 of a field.
NextPageInfos(n) ==
    { PageInfo(FALSE, "c"), PageInfo(TRUE, Null) }
        \cup (IF n < MaxPages THEN { PageInfo(TRUE, "c") } ELSE {})

\* Page infos the server may attach to page g.n + 1 of the field the stream is
\* on: any for the collection of a record that has one; the collections of a
\* record with several have two pages each.
PageInfosOf(rec, g) ==
    IF Len(FieldGenerators(rec)) = 1 THEN NextPageInfos(g.n) ELSE { PageInfo(FALSE, "c") }

\* The parent's record in an answer: page n + 1 of the field with any of the
\* page infos, or an empty page that announces a further one.
OwnPages(rec, g) ==
    { [id |-> rec.id, nodes |-> PageItems(Head(g.fgens), g.n + 1), pageInfo |-> pi] :
        pi \in PageInfosOf(rec, g) }
      \cup { [id |-> rec.id, nodes |-> << >>, pageInfo |-> pi] :
                pi \in PageInfosOf(rec, g) \ { PageInfo(FALSE, "c"), PageInfo(TRUE, Null) } }

\* A failed query, a response without the parent, or a response that lists a
\* sibling record before the parent's.
Responses(rec, g) ==
    { [kind |-> "error", nodes |-> << >>],
      [kind |-> "data", nodes |-> << Decoy(rec.id) >>] }
        \cup { [kind |-> "data", nodes |-> << Decoy(rec.id), own >>] :
                 own \in OwnPages(rec, g) }

(***************************************************************************)
(* _process_nested_fields: the waves of bounded_anext tasks.               *)
(***************************************************************************)
Task(i, st, result) == [i |-> i, st |-> st, result |-> result]

\* One entry of a stream's trace.
Event(o) ==
    [ev |-> IF o.kind = "item" THEN "yield" ELSE o.kind, field |-> o.field,
     nodes |-> o.nodes, pageInfo |-> o.gen.page_info, cursor |-> o.gen.cursor]

ResultOf(o) == [kind |-> o.kind, field |-> o.field, nodes |-> o.nodes, alias |-> o.alias]

\* Mutant: the tasks are gathered without the semaphore.
SlotAlwaysFree == TRUE

\* async with sem: the slot is taken only while the semaphore is not locked.
SlotFree == sem > 0

\* bounded_anext(field_iter) from the acquisition of the slot to the stream's
\* next suspension: either the advance resolves at once (slot released in the
\* same step) or a remote call is outstanding and the slot stays taken.
RunTask(k) ==
    LET i == active_data[k]
        o == Anext(projects[i], gens[i])
    IN  /\ gens' = [gens EXCEPT ![i] = o.gen]
        /\ trace' = [trace EXCEPT ![i] = Append(@, Event(o))]
        /\ IF o.kind = "call"
           THEN /\ tasks' = [tasks EXCEPT ![k] = Task(i, "inflight", NoResult)]
                /\ sem' = sem - 1
           ELSE /\ tasks' = [tasks EXCEPT ![k] = Task(i, "done", ResultOf(o))]
                /\ sem' = sem

\* while active_data: ... tasks = [bounded_anext(field_iter) for ...]
WaveBegin ==
    /\ mpc = "loop"
    /\ IF active_data = << >>
       THEN /\ mpc' = "done"
            /\ UNCHANGED << tasks, ti >>
       ELSE /\ mpc' = "starting"
            /\ tasks' = [k \in 1..Len(active_data) |->
                            Task(active_data[k], "pending", NoResult)]
            /\ ti' = 1
    /\ UNCHANGED << projects, gens, active_data, sem, out, batch, trace, mpulls >>
    /\ UNCHANGED << rvars, cvars, top >>

\* asyncio.gather schedules the tasks in order; each runs to its first
\* suspension before any remote call of the wave can resolve.
StartTask ==
    /\ mpc = "starting"
    /\ IF SlotFree
       THEN RunTask(ti)
       ELSE /\ tasks' = [tasks EXCEPT ![ti] = Task(active_data[ti], "waiting", NoResult)]
            /\ UNCHANGED << gens, sem, trace >>
    /\ ti' = ti + 1
    /\ mpc' = IF ti = Len(active_data) THEN "gather" ELSE "starting"
    /\ UNCHANGED << projects, active_data, out, batch, mpulls >>
    /\ UNCHANGED << rvars, cvars, top >>

Waiting == { k \in 1..Len(tasks) : tasks[k].st = "waiting" }

\* A released slot goes to the longest-waiting task.
Acquire ==
    /\ mpc = "gather"
    /\ Waiting # {}
    /\ SlotFree
    /\ RunTask(CHOOSE k \in Waiting : \A l \in Waiting : k <= l)
    /\ UNCHANGED << projects, active_data, mpc, ti, out, batch, mpulls >>
    /\ UNCHANGED << rvars, cvars, top >>

\* Mutant: the slot is given back only when the advance returns a page, not
\* when it raises.
ResolveLeak(k) ==
    /\ mpc = "gather"
    /\ tasks[k].st = "inflight"
    /\ LET i == active_data[k]
       IN  \E resp \in Responses(projects[i], gens[i]) :
             LET o == OnResponse(projects[i], gens[i], resp)
             IN  /\ gens' = [gens EXCEPT ![i] = o.gen]
                 /\ tasks' = [tasks EXCEPT ![k] = Task(i, "done", ResultOf(o))]
                 /\ trace' = [trace EXCEPT ![i] = Append(@, Event(o))]
                 /\ sem' = IF o.kind = "exc" THEN sem ELSE sem + 1
    /\ UNCHANGED << projects, active_data, mpc, ti, out, batch, mpulls >>
    /\ UNCHANGED << rvars, cvars, top >>

\* The remote call of task k resolves; the stream runs on to its yield or to
\* the exception, and the slot is released.
Resolve(k) ==
    /\ mpc = "gather"
    /\ tasks[k].st = "inflight"
    /\ LET i == active_data[k]
       IN  \E resp \in Responses(projects[i], gens[i]) :
             LET o == OnResponse(projects[i], gens[i], resp)
             IN  /\ gens' = [gens EXCEPT ![i] = o.gen]
                 /\ tasks' = [tasks EXCEPT ![k] = Task(i, "done", ResultOf(o))]
                 /\ trace' = [trace EXCEPT ![i] = Append(@, Event(o))]
    /\ sem' = sem + 1
    /\ UNCHANGED << projects, active_data, mpc, ti, out, batch, mpulls >>
    /\ UNCHANGED << rvars, cvars, top >>

\* Mutant: the page replaces the list (= instead of extend).
ExtendNodesReplace(rec, field, ext) ==
    [rec EXCEPT !.fields[FieldIndex(rec, field)].nodes = ext]

\* Mutant: the page is put in front of the list.
ExtendNodesPrepend(rec, field, ext) ==
    [rec EXCEPT !.fields[FieldIndex(rec, field)].nodes = ext \o @]

\* project[field_name]["nodes"].extend(nodes)
ExtendNodes(rec, field, ext) ==
    [rec EXCEPT !.fields[FieldIndex(rec, field)].nodes = @ \o ext]

\* Mutant: a pair that is dropped takes the parent's merged items with it, the
\* record goes back to what was handed over.
MergeStepDropResets(acc, i, r) ==
    IF r.kind = "item"
    THEN LET ext == IF r.alias THEN FieldOf(acc.projs[i], r.field).nodes ELSE r.nodes
         IN  [projs |-> IF ext # << >>
                        THEN [acc.projs EXCEPT ![i] =
                                [@ EXCEPT !.fields[FieldIndex(@, r.field)].nodes = @ \o ext]]
                        ELSE acc.projs,
              next_active |-> Append(acc.next_active, i),
              updated |-> acc.updated \/ ext # << >>]
    ELSE [acc EXCEPT !.projs[i] = batch[i]]

\* Mutant: updated is set outside the test for a result, so a wave of
\* exhausted streams yields a snapshot.
MergeStepStopUpdates(acc, i, r) ==
    IF r.kind = "item"
    THEN LET ext == IF r.alias THEN FieldOf(acc.projs[i], r.field).nodes ELSE r.nodes
         IN  [projs |-> IF ext # << >>
                        THEN [acc.projs EXCEPT ![i] =
                                [@ EXCEPT !.fields[FieldIndex(@, r.field)].nodes = @ \o ext]]
                        ELSE acc.projs,
              next_active |-> Append(acc.next_active, i),
              updated |-> TRUE]
    ELSE [acc EXCEPT !.updated = TRUE]

\* Mutant: updated is set for every page, empty or not.
MergeStepAlwaysUpdated(acc, i, r) ==
    IF r.kind = "item"
    THEN LET ext == IF r.alias THEN FieldOf(acc.projs[i], r.field).nodes ELSE r.nodes
         IN  [projs |-> IF ext # << >>
                        THEN [acc.projs EXCEPT ![i] =
                                [@ EXCEPT !.fields[FieldIndex(@, r.field)].nodes = @ \o ext]]
                        ELSE acc.projs,
              next_active |-> Append(acc.next_active, i),
              updated |-> TRUE]
    ELSE acc

\* One iteration of "for (project, field_iter), result in zip(active_data, results)".
\* A first page is the parent's own list object, so what is appended is the
\* list as it stands.
MergeStep(acc, i, r) ==
    IF r.kind = "item"
    THEN LET ext == IF r.alias THEN FieldOf(acc.projs[i], r.field).nodes ELSE r.nodes
         IN  [projs |-> IF ext # << >>
                        THEN [acc.projs EXCEPT ![i] = ExtendNodes(@, r.field, ext)]
                        ELSE acc.projs,
              next_active |-> Append(acc.next_active, i),
              updated |-> acc.updated \/ ext # << >>]
    ELSE acc

RECURSIVE MergeLoop(_, _, _, _)
MergeLoop(active, results, k, acc) ==
    IF k > Len(active)
    THEN acc
    ELSE MergeLoop(active, results, k + 1, MergeStep(acc, active[k], results[k]))

\* The copy of one project made for a snapshot; a dict field with "nodes" is
\* rebuilt from its "nodes" and its "pageInfo".
SnapshotRaises(rec) == \E j \in 1..Len(rec.fields) : rec.fields[j].kind = "nodesOnly"

\* Mutant: the snapshot holds the record's own list (no list(...) around it).
SnapshotFieldShared(fd) ==
    [name |-> fd.name, kind |-> fd.kind, nodes |-> fd.nodes, pageInfo |-> fd.pageInfo,
     own |-> FALSE]

\* One value of the copy: a dict with "nodes" is rebuilt around list(nodes),
\* a list of the snapshot's own; any other value is the record's object.
SnapshotField(fd) ==
    [name |-> fd.name, kind |-> fd.kind, nodes |-> fd.nodes, pageInfo |-> fd.pageInfo,
     own |-> fd.kind # "scalar"]

SnapshotOf(rec) ==
    [id |-> rec.id, fields |-> [j \in 1..Len(rec.fields) |-> SnapshotField(rec.fields[j])]]

\* Mutant: gather without return_exceptions, the first exception of a wave
\* leaves _process_nested_fields.
WaveOutcomeAbort(active, results, projs) ==
    LET failed == \E k \in 1..Len(results) : results[k].kind = "exc"
        acc == MergeLoop(active, results, 1,
                         [projs |-> projs, next_active |-> << >>, updated |-> FALSE])
        na  == acc.next_active
    IN  [projs |-> IF failed THEN projs ELSE acc.projs,
         next_active |-> IF failed THEN active ELSE na,
         updated |-> failed \/ acc.updated,
         raised |-> failed \/ (acc.updated
                                /\ \E k \in 1..Len(na) : SnapshotRaises(acc.projs[na[k]])),
         snap |-> [k \in 1..Len(na) |-> SnapshotOf(acc.projs[na[k]])]]

\* Mutant: the snapshot is built before active_data is replaced by next_active.
WaveOutcomeAllPairs(active, results, projs) ==
    LET acc == MergeLoop(active, results, 1,
                         [projs |-> projs, next_active |-> << >>, updated |-> FALSE])
        na  == acc.next_active
    IN  [projs |-> acc.projs,
         next_active |-> na,
         updated |-> acc.updated,
         raised |-> acc.updated /\ \E k \in 1..Len(active) : SnapshotRaises(acc.projs[active[k]]),
         snap |-> [k \in 1..Len(active) |-> SnapshotOf(acc.projs[active[k]])]]

\* What the loop body after gather does with the results of a wave.
WaveOutcome(active, results, projs) ==
    LET acc == MergeLoop(active, results, 1,
                         [projs |-> projs, next_active |-> << >>, updated |-> FALSE])
        na  == acc.next_active
    IN  [projs |-> acc.projs,
         next_active |-> na,
         updated |-> acc.updated,
         raised |-> acc.updated /\ \E k \in 1..Len(na) : SnapshotRaises(acc.projs[na[k]]),
         snap |-> [k \in 1..Len(na) |-> SnapshotOf(acc.projs[na[k]])]]

Results == [k \in 1..Len(tasks) |-> tasks[k].result]

AllDone == \A k \in 1..Len(tasks) : tasks[k].st = "done"

\* Mutant: the wave is merged as soon as one advance has resolved.
MergeWaveFirstDone ==
    /\ mpc = "gather"
    /\ \E k \in 1..Len(tasks) : tasks[k].st = "done"
    /\ LET w == WaveOutcome(active_data, Results, projects)
       IN  /\ projects' = w.projs
           /\ active_data' = w.next_active
           /\ IF w.updated
              THEN IF w.raised
                   THEN mpc' = "raised" /\ out' = out
                   ELSE mpc' = "yielded" /\ out' = Append(out, w.snap)
              ELSE mpc' = "loop" /\ out' = out
    /\ UNCHANGED << gens, tasks, ti, sem, batch, trace, mpulls >>
    /\ UNCHANGED << rvars, cvars, top >>

\* Mutant: the snapshot is handed on without waiting for the consumer, the
\* loop goes straight to its next wave.
MergeWaveEager ==
    /\ mpc = "gather"
    /\ AllDone
    /\ LET w == WaveOutcome(active_data, Results, projects)
       IN  /\ projects' = w.projs
           /\ active_data' = w.next_active
           /\ IF w.updated
              THEN IF w.raised
                   THEN mpc' = "raised" /\ out' = out
                   ELSE mpc' = "loop" /\ out' = Append(out, w.snap)
              ELSE mpc' = "loop" /\ out' = out
    /\ UNCHANGED << gens, tasks, ti, sem, batch, trace, mpulls >>
    /\ UNCHANGED << rvars, cvars, top >>

\* gather has returned: merge, shrink the active set, yield a snapshot if
\* anything was appended.
MergeWave ==
    /\ mpc = "gather"
    /\ AllDone
    /\ LET w == WaveOutcome(active_data, Results, projects)
       IN  /\ projects' = w.projs
           /\ active_data' = w.next_active
           /\ IF w.updated
              THEN IF w.raised
                   THEN mpc' = "raised" /\ out' = out
                   ELSE mpc' = "yielded" /\ out' = Append(out, w.snap)
              ELSE mpc' = "loop" /\ out' = out
    /\ UNCHANGED << gens, tasks, ti, sem, batch, trace, mpulls >>
    /\ UNCHANGED << rvars, cvars, top >>

\* The consumer asks for the next snapshot.
Pull ==
    /\ mpc = "yielded"
    /\ mpc' = "loop"
    /\ mpulls' = mpulls + 1
    /\ UNCHANGED << projects, gens, active_data, tasks, ti, sem, out, batch, trace >>
    /\ UNCHANGED << rvars, cvars, top >>

\* variables=None, used as "variables or {}".
NoVariables == [k \in {} |-> Null]

\* The paginators not taking part in a specification stay as constructed.
RestIdle ==
    /\ rpc = "idle"
    /\ page_size = 0
    /\ page = 0
    /\ response = << >>
    /\ rout = << >>
    /\ rlog = << >>
    /\ rsrv = << >>
    /\ rpulls = 0

CursorIdle ==
    /\ cpc = "idle"
    /\ cursor = Null
    /\ resource_data = [nodes |-> << >>, pageInfo |-> NoPageInfo]
    /\ cout = << >>
    /\ clog = << >>
    /\ csrv = << >>
    /\ variables = NoVariables
    /\ cpulls = 0

MergerIdle ==
    /\ projects = << >>
    /\ gens = << >>
    /\ active_data = << >>
    /\ mpc = "idle"
    /\ tasks = << >>
    /\ ti = 1
    /\ sem = K
    /\ out = << >>
    /\ batch = << >>
    /\ trace = << >>
    /\ mpulls = 0
    /\ top = 1

Batches == [ParentIds -> RecordShapes]

Init ==
    /\ \E b \in Batches : projects = [i \in ParentIds |-> Record(i, b[i])]
    /\ gens = [i \in ParentIds |-> NewGen]
    /\ active_data = [i \in ParentIds |-> i]
    /\ mpc = "loop"
    /\ tasks = << >>
    /\ ti = 1
    /\ sem = K
    /\ out = << >>
    /\ batch = projects
    /\ trace = [i \in ParentIds |-> << >>]
    /\ mpulls = 1
    /\ top = 1
    /\ RestIdle
    /\ CursorIdle

Next ==
    \/ WaveBegin
    \/ StartTask
    \/ Acquire
    \/ \E k \in 1..Len(tasks) : Resolve(k)
    \/ MergeWave
    \/ Pull


Spec == Init /\ [][Next]_vars

(***************************************************************************)
(* RestClient._make_paginated_request.                                     *)
(***************************************************************************)
\* Items the REST server returns on a page.
RestItems(p, len) == [j \in 1..len |-> 10 * p + j]

\* What the server may answer to the request for page p with per_page n: up to
\* n items (or one more, from a server that ignores per_page), fewer than n
\* once MaxRestPages pages were served.
RestResponses(p, n) ==
    { RestItems(p, len) : len \in 0..(IF p < MaxRestPages THEN n + 1 ELSE n - 1) }

\* request_params = {**params_dict, "per_page": page_size, "page": page}
RequestParams(p, n) == [page |-> p, per_page |-> n]

\* Mutant: a full page counts as the last one.
LastPageInclusive(resp, n) == Len(resp) <= n

\* Mutant: the short-page test is missing.
LastPageNever(resp, n) == FALSE

\* if len(response) < page_size: break
LastPage(resp, n) == Len(resp) < n

\* page += 1
NextPageNumber(p) == p + 1

\* The consumer pulls: the generator runs to its next await (a request goes
\* out) or ends.
RestPull ==
    /\ rpc \in {"new", "yielded"}
    /\ rpulls' = rpulls + 1
    /\ IF rpc = "yielded" /\ LastPage(response, page_size)
       THEN /\ rpc' = "done"
            /\ UNCHANGED << page, rlog >>
       ELSE /\ page' = IF rpc = "new" THEN 1 ELSE NextPageNumber(page)
            /\ rlog' = Append(rlog, RequestParams(page', page_size))
            /\ rpc' = "awaiting"
    /\ UNCHANGED << page_size, response, rout, rsrv >>
    /\ UNCHANGED << mvars, cvars >>

\* send_api_request returns: an empty response ends the sequence, any other
\* is yielded.
RestRespond ==
    /\ rpc = "awaiting"
    /\ \E resp \in RestResponses(page, page_size) :
         /\ response' = resp
         /\ rsrv' = Append(rsrv, resp)
         /\ IF resp = << >>
            THEN rpc' = "done" /\ rout' = rout
            ELSE rpc' = "yielded" /\ rout' = Append(rout, resp)
    /\ UNCHANGED << page_size, page, rlog, rpulls >>
    /\ UNCHANGED << mvars, cvars >>

\* send_api_request raises: the exception leaves the generator.
RestFail ==
    /\ rpc = "awaiting"
    /\ rpc' = "raised"
    /\ UNCHANGED << page_size, page, response, rout, rlog, rsrv, rpulls >>
    /\ UNCHANGED << mvars, cvars >>

InitRest ==
    /\ rpc = "new"
    /\ page_size \in 1..MaxPageSize
    /\ page = 0
    /\ response = << >>
    /\ rout = << >>
    /\ rlog = << >>
    /\ rsrv = << >>
    /\ rpulls = 0
    /\ MergerIdle
    /\ CursorIdle

NextRest ==
    \/ RestPull
    \/ RestRespond
    \/ RestFail

SpecRest == InitRest /\ [][NextRest]_vars

(***************************************************************************)
(* GraphQLClient._execute_paginated_query.                                 *)
(***************************************************************************)
\* Ids of the records the server returns on its n-th answer.
TopNodes(n) == << 10 * n + 1, 10 * n + 2 >>

TopPageInfos(n) ==
    { PageInfo(FALSE, Null), PageInfo(FALSE, "c1") }
        \cup (IF n < MaxTopPages
              THEN { PageInfo(TRUE, "c1"), PageInfo(TRUE, "c2"), PageInfo(TRUE, Null) }
              ELSE {})

\* data[resource_field] of the n-th answer.
TopResponses(n) ==
    { [nodes |-> nodes, pageInfo |-> pi] :
        nodes \in { << >>, TopNodes(n) }, pi \in TopPageInfos(n) }

\* The variables argument of the caller: none, a page length, a page length
\* and a variable named "cursor".
CallerVariables ==
    { NoVariables, [first |-> 2], [first |-> 2, cursor |-> "x"] }

\* variables={"cursor": cursor, **(variables or {})}: a key of the caller's
\* dict replaces the one written before it.
QueryVariables(cur, vs) == vs @@ [cursor |-> cur]

\* Mutant: the sequence ends when there is no cursor.
TopLastPageByCursor(page_info) == page_info.endCursor = Null

\* if not page_info["hasNextPage"]: break
TopLastPage(page_info) == ~ page_info.hasNextPage

\* The consumer pulls: the generator runs to its next await (a query goes out
\* with the cursor variable) or ends.
CursorPull ==
    /\ cpc \in {"new", "yielded"}
    /\ cpulls' = cpulls + 1
    /\ IF cpc = "yielded" /\ TopLastPage(resource_data.pageInfo)
       THEN /\ cpc' = "done"
            /\ UNCHANGED << cursor, clog >>
       ELSE /\ cursor' = IF cpc = "new" THEN Null ELSE resource_data.pageInfo.endCursor
            /\ clog' = Append(clog, QueryVariables(cursor', variables).cursor)
            /\ cpc' = "awaiting"
    /\ UNCHANGED << resource_data, cout, csrv, variables >>
    /\ UNCHANGED << mvars, rvars >>

\* _execute_query returns: no nodes ends the sequence, otherwise the nodes are
\* yielded with one _fetch_paginated_fields generator per node.
CursorRespond ==
    /\ cpc = "awaiting"
    /\ \E resp \in TopResponses(Len(clog)) :
         /\ resource_data' = resp
         /\ csrv' = Append(csrv, resp)
         /\ IF resp.nodes = << >>
            THEN cpc' = "done" /\ cout' = cout
            ELSE /\ cpc' = "yielded"
                 /\ cout' = Append(cout, [nodes |-> resp.nodes,
                                          generators |->
                                            [j \in 1..Len(resp.nodes) |-> resp.nodes[j]]])
    /\ UNCHANGED << cursor, clog, variables, cpulls >>
    /\ UNCHANGED << mvars, rvars >>

\* Mutant: the exception is caught in the loop and ends the sequence quietly.
CursorFailSwallowed ==
    /\ cpc = "awaiting"
    /\ cpc' = "done"
    /\ UNCHANGED << cursor, resource_data, cout, clog, csrv, variables, cpulls >>
    /\ UNCHANGED << mvars, rvars >>

\* _execute_query raises (transport error, "errors" in the response) or the
\* resource key is missing: the exception leaves the generator.
CursorFail ==
    /\ cpc = "awaiting"
    /\ cpc' = "raised"
    /\ UNCHANGED << cursor, resource_data, cout, clog, csrv, variables, cpulls >>
    /\ UNCHANGED << mvars, rvars >>

InitCursor ==
    /\ cpc = "new"
    /\ cursor = Null
    /\ resource_data = [nodes |-> << >>, pageInfo |-> NoPageInfo]
    /\ cout = << >>
    /\ clog = << >>
    /\ csrv = << >>
    /\ variables \in CallerVariables
    /\ cpulls = 0
    /\ MergerIdle
    /\ RestIdle

NextCursor ==
    \/ CursorPull
    \/ CursorRespond
    \/ CursorFail

SpecCursor == InitCursor /\ [][NextCursor]_vars

(***************************************************************************)
(* Runs of either top-level paginator, and runs of any of the three        *)
(* generators: each run drives one generator, the others stay idle.        *)
(***************************************************************************)
InitPaginators == InitRest \/ InitCursor

NextPaginators ==
    \/ RestPull
    \/ RestRespond
    \/ RestFail
    \/ CursorPull
    \/ CursorRespond
    \/ CursorFail

SpecPaginators == InitPaginators /\ [][NextPaginators]_vars

InitAny == Init \/ InitRest \/ InitCursor

NextAny ==
    \/ WaveBegin
    \/ StartTask
    \/ Acquire
    \/ \E k \in 1..Len(tasks) : Resolve(k)
    \/ MergeWave
    \/ Pull
    \/ RestPull
    \/ RestRespond
    \/ RestFail
    \/ CursorPull
    \/ CursorRespond
    \/ CursorFail

SpecAny == InitAny /\ [][NextAny]_vars


(***************************************************************************)
(* The merger against a well-formed server: one that selects the top-level *)
(* page by the "cursor" variable of the query (the first page when there   *)
(* is none), answers every query, and lists the records of that page with  *)
(* the requested page of the nested field.                                 *)
(***************************************************************************)
\* f"{field_name}Cursor"
CursorKey(field) == IF field = "labels" THEN "labelsCursor" ELSE "membersCursor"

\* variables={f"{field_name}Cursor": cursor, **variables}
NestedQueryVariables(field, cur, vs) == vs @@ (CursorKey(field) :> cur)

\* The top-level page a query selects: the one after the cursor it carries.
SelectedTopPage(qv) ==
    IF "cursor" \in DOMAIN qv /\ qv["cursor"] # Null THEN 2 ELSE 1

\* A record of a top-level page other than the one the batch came from.
OtherPageRecord == [id |-> 0, nodes |-> << 91, 92 >>, pageInfo |-> NoPageInfo]

\* The answers of the well-formed server to the re-query of stream g: the
\* records of the selected top-level page, the parent among them only when
\* that is the page the parent is on.
WellFormedResponses(rec, g, vs, p) ==
    IF SelectedTopPage(NestedQueryVariables(Head(g.fgens), g.cursor, vs)) = p
    THEN { [kind |-> "data", nodes |-> << Decoy(rec.id), own >>] :
             own \in { o \in OwnPages(rec, g) :
                         o.nodes # << >> /\ o.pageInfo.endCursor # Null } }
    ELSE { [kind |-> "data", nodes |-> << OtherPageRecord >>] }

\* The remote call of task k resolves with an answer of the well-formed server.
ResolveWellFormed(k) ==
    /\ mpc = "gather"
    /\ tasks[k].st = "inflight"
    /\ LET i == active_data[k]
       IN  \E resp \in WellFormedResponses(projects[i], gens[i], variables, top) :
             LET o == OnResponse(projects[i], gens[i], resp)
             IN  /\ gens' = [gens EXCEPT ![i] = o.gen]
                 /\ tasks' = [tasks EXCEPT ![k] = Task(i, "done", ResultOf(o))]
                 /\ trace' = [trace EXCEPT ![i] = Append(@, Event(o))]
    /\ sem' = sem + 1
    /\ UNCHANGED << projects, active_data, mpc, ti, out, batch, mpulls >>
    /\ UNCHANGED << rvars, cvars, top >>

\* The batch is any of the first MaxTop batches of the top-level sequence.
InitWellFormed ==
    /\ \E b \in Batches : projects = [i \in ParentIds |-> Record(i, b[i])]
    /\ gens = [i \in ParentIds |-> NewGen]
    /\ active_data = [i \in ParentIds |-> i]
    /\ mpc = "loop"
    /\ tasks = << >>
    /\ ti = 1
    /\ sem = K
    /\ out = << >>
    /\ batch = projects
    /\ trace = [i \in ParentIds |-> << >>]
    /\ mpulls = 1
    /\ top \in 1..MaxTop
    /\ RestIdle
    /\ CursorIdle

NextWellFormed ==
    \/ WaveBegin
    \/ StartTask
    \/ Acquire
    \/ \E k \in 1..Len(tasks) : ResolveWellFormed(k)
    \/ MergeWave
    \/ Pull

SpecWellFormed == InitWellFormed /\ [][NextWellFormed]_vars

(***************************************************************************)
(* Properties.                                                             *)
(***************************************************************************)
IsPrefix(a, b) == Len(a) <= Len(b) /\ SubSeq(b, 1, Len(a)) = a

Last(seq) == seq[Len(seq)]

\* The tasks of the wave holding a slot with their remote call outstanding.
Inflight == { k \in 1..Len(tasks) : tasks[k].st = "inflight" }

\* The merger is between waves.
WaveBoundary == mpc \in {"loop", "yielded", "done", "raised"}

\* C1: at every instant at most K advances hold a limiter slot, that is, at
\* most K remote calls of the batch are outstanding.
C1_AtMostKOutstanding == Cardinality(Inflight) <= K

\* C1 witness: K calls are outstanding and a further advance waits for a slot.
C1_CapBinds == Cardinality(Inflight) = K /\ Waiting # {}

\* The tasks of the wave whose advance raised.
Failed == { k \in 1..Len(tasks) : tasks[k].result.kind = "exc" }

RECURSIVE Without(_, _, _)
Without(seq, drop, k) ==
    IF k > Len(seq)
    THEN << >>
    ELSE (IF k \in drop THEN << >> ELSE << seq[k] >>) \o Without(seq, drop, k + 1)

\* C2: when advances of a wave raised, every advance of the wave has still
\* resolved and the merge of that wave neither raises because of them nor
\* treats the other pairs differently: the failing pairs leave the active set,
\* and the records, the active set, the snapshot and the merger's next step
\* are those of the same wave without the failing pairs.
C2_FailureContained ==
    [][ (mpc = "gather" /\ AllDone /\ Failed # {}) =>
          LET ref == WaveOutcome(Without(active_data, Failed, 1),
                                 Without(Results, Failed, 1), projects)
          IN  /\ projects' = ref.projs
              /\ active_data' = ref.next_active
              /\ \A k \in Failed :
                   \A l \in 1..Len(active_data') : active_data'[l] # active_data[k]
              /\ mpc' = IF ref.updated
                        THEN IF ref.raised THEN "raised" ELSE "yielded"
                        ELSE "loop"
              /\ out' = IF ref.updated /\ ~ ref.raised THEN Append(out, ref.snap) ELSE out
      ]_vars

\* C2 witness: a wave in which one advance raised and another brought a page
\* has been merged and its snapshot yielded.
C2_FailureBesideProgress ==
    /\ mpc = "yielded"
    /\ Failed # {}
    /\ \E k \in 1..Len(tasks) :
         /\ tasks[k].result.kind = "item"
         /\ tasks[k].result.nodes # << >>
         /\ \E l \in 1..Len(Last(out)) : Last(out)[l].id = tasks[k].i

\* C3: across the snapshots that contain a parent, each nested item list is a
\* prefix of the same list in every later snapshot (so its length never
\* decreases), and of the list the record holds now.
C3_AppendOnly ==
    /\ \A a \in 1..Len(out) : \A b \in (a + 1)..Len(out) :
         \A x \in 1..Len(out[a]) : \A y \in 1..Len(out[b]) :
           out[a][x].id = out[b][y].id =>
             \A j \in 1..Len(out[a][x].fields) :
               IsPrefix(out[a][x].fields[j].nodes, out[b][y].fields[j].nodes)
    /\ \A a \in 1..Len(out) : \A x \in 1..Len(out[a]) :
         \A j \in 1..Len(out[a][x].fields) :
           IsPrefix(out[a][x].fields[j].nodes, projects[out[a][x].id].fields[j].nodes)

\* C3 witness: a parent is in two snapshots and its list has grown in between.
C3_GrownAcrossSnapshots ==
    \E a \in 1..Len(out) : \E b \in 1..Len(out) :
      /\ a < b
      /\ \E x \in 1..Len(out[a]) : \E y \in 1..Len(out[b]) :
           /\ out[a][x].id = out[b][y].id
           /\ \E j \in 1..Len(out[a][x].fields) :
                Len(out[a][x].fields[j].nodes) < Len(out[b][y].fields[j].nodes)

\* The pages a stream has yielded for a field, concatenated in the order of
\* its requests.
RECURSIVE ConcatPages(_, _, _)
ConcatPages(t, field, e) ==
    IF e > Len(t)
    THEN << >>
    ELSE (IF t[e].ev = "yield" /\ t[e].field = field THEN t[e].nodes ELSE << >>)
           \o ConcatPages(t, field, e + 1)

\* The remote page an item belongs to.
PageNo(item) == (item % 100) \div 10

\* C4: between waves, a parent's field holds what it held at hand-over
\* followed by the pages its stream yielded, page after page in request order
\* and each page in the server's order; so the items' pages never step back
\* along the list (no item of a later page precedes one of an earlier page).
C4_RequestOrder ==
    WaveBoundary =>
      \A i \in ParentIds : \A j \in 1..Len(projects[i].fields) :
        LET fd == projects[i].fields[j]
        IN  /\ fd.nodes = batch[i].fields[j].nodes \o ConcatPages(trace[i], fd.name, 1)
            /\ \A a \in 1..(Len(fd.nodes) - 1) :
                 PageNo(fd.nodes[a]) <= PageNo(fd.nodes[a + 1])

\* C4 witness: a field holds the items of two re-queried pages while another
\* parent's field was re-queried in the same waves.
C4_TwoPagesMerged ==
    /\ WaveBoundary
    /\ \E i \in ParentIds : \E h \in ParentIds :
         /\ i # h
         /\ \E a \in 1..Len(projects[i].fields[1].nodes) :
              \E b \in 1..Len(projects[i].fields[1].nodes) :
                /\ PageNo(projects[i].fields[1].nodes[a]) = 2
                /\ PageNo(projects[i].fields[1].nodes[b]) = 3
         /\ \E a \in 1..Len(projects[h].fields[1].nodes) :
              PageNo(projects[h].fields[1].nodes[a]) = 2

\* The reference page paginator on the server's answers: every non-empty
\* answer is a batch, up to and including the first short one.
RECURSIVE RefBatches(_, _)
RefBatches(resps, n) ==
    IF resps = << >> \/ Head(resps) = << >>
    THEN << >>
    ELSE IF Len(Head(resps)) < n
         THEN << Head(resps) >>
         ELSE << Head(resps) >> \o RefBatches(Tail(resps), n)

RefStops(resp, n) == resp = << >> \/ Len(resp) < n

\* C5: the requests are pages 1, 2, 3, ... with per_page = N, one per answer
\* (plus the one outstanding); the batches yielded are those of the reference
\* paginator; no request follows an empty or short answer, and the sequence
\* has ended only after such an answer.
C5_EqualsReference ==
    /\ rlog = [p \in 1..Len(rlog) |-> [page |-> p, per_page |-> page_size]]
    /\ Len(rlog) = Len(rsrv) + (IF rpc \in {"awaiting", "raised"} THEN 1 ELSE 0)
    /\ rout = RefBatches(rsrv, page_size)
    /\ \A k \in 1..(Len(rsrv) - 1) : ~ RefStops(rsrv[k], page_size)
    /\ rpc = "done" => (rsrv # << >> /\ RefStops(Last(rsrv), page_size))
    /\ (rsrv # << >> /\ RefStops(Last(rsrv), page_size)) => rpc \in {"yielded", "done"}
    /\ (rsrv # << >> /\ Last(rsrv) = << >>) => rpc = "done"

\* C5 witness: pages [a,b], [c] with N = 2 were yielded as [a,b], [c] and the
\* sequence has ended after two requests.
C5_ScenarioA ==
    /\ page_size = 2
    /\ rpc = "done"
    /\ rsrv = << RestItems(1, 2), RestItems(2, 1) >>
    /\ rout = << RestItems(1, 2), RestItems(2, 1) >>
    /\ Len(rlog) = 2

\* C6 as stated: once the sequence has ended, the last batch yielded is
\* shorter than N (or there is none).
C6_LastBatchShort ==
    rpc = "done" => (rout = << >> \/ Len(Last(rout)) < page_size)

\* C6 amended: every batch but the last is at least N long; the sequence ends
\* on the first answer shorter than N, which is the last batch when it is not
\* empty; when it is empty the last batch yielded, if any, is a full one; and
\* after the end nothing more is yielded or requested.
C6_TerminalResponseShort ==
    /\ \A k \in 1..(Len(rout) - 1) : Len(rout[k]) >= page_size
    /\ rpc = "done" =>
         /\ Len(Last(rsrv)) < page_size
         /\ Last(rsrv) # << >> => (rout # << >> /\ Last(rout) = Last(rsrv))
         /\ Last(rsrv) = << >> => \A k \in 1..Len(rout) : Len(rout[k]) >= page_size
         /\ (Len(rsrv) = 1 /\ Last(rsrv) = << >>) => rout = << >>
         /\ Len(rout) <= Len(rsrv)
         /\ Len(rlog) = Len(rsrv)

\* C6 witness: the sequence has ended on an empty answer after full batches.
C6_EndedOnEmptyPage ==
    /\ rpc = "done"
    /\ Last(rsrv) = << >>
    /\ rout # << >>
    /\ Len(Last(rout)) = page_size

\* C7: an answer with hasNextPage = false is the last one asked for: its
\* batch has been yielded (when it has nodes), the generator is suspended at
\* that yield or has ended, and no query has been sent after it.
C7_HasNextFalseTerminates ==
    \A k \in 1..Len(csrv) :
      ~ csrv[k].pageInfo.hasNextPage =>
        /\ Len(clog) = k
        /\ cpc \in {"yielded", "done"}
        /\ csrv[k].nodes # << >> => (cout # << >> /\ Last(cout).nodes = csrv[k].nodes)
        /\ csrv[k].nodes = << >> => cpc = "done"

\* C7 witness: the second answer had nodes, an end cursor and hasNextPage =
\* false; both batches were yielded and the sequence has ended.
C7_EndedAfterLastBatch ==
    /\ cpc = "done"
    /\ Len(csrv) = 2
    /\ Len(cout) = 2
    /\ ~ csrv[2].pageInfo.hasNextPage
    /\ csrv[2].pageInfo.endCursor = "c1"
    /\ Len(clog) = 2

\* No earlier entry of the trace is about the field of entry e.
FirstOfField(t, e) == \A d \in 1..(e - 1) : t[d].field # t[e].field

\* C8: a field's first page is yielded with no request before it and is the
\* page the parent carried; a request is issued only right after a yield of
\* the same field whose page info has hasNextPage = true; every later page
\* yielded comes right after one request, and a request is followed by at
\* most its one page.
C8_OneRequestPerPage ==
    \A i \in ParentIds : \A e \in 1..Len(trace[i]) :
      LET t == trace[i]
      IN  /\ t[e].ev = "call" =>
                /\ e > 1
                /\ t[e - 1].ev = "yield"
                /\ t[e - 1].field = t[e].field
                /\ t[e - 1].pageInfo.hasNextPage
                /\ e < Len(t) => (t[e + 1].ev \in {"yield", "exc"}
                                   /\ t[e + 1].field = t[e].field)
          /\ t[e].ev = "yield" =>
                IF FirstOfField(t, e)
                THEN t[e].nodes = FieldOf(batch[i], t[e].field).nodes
                ELSE t[e - 1].ev = "call" /\ t[e - 1].field = t[e].field

\* C8 witness: a stream yielded its first page, made two requests with one
\* page each, and ended without a request once hasNextPage was false.
C8_ThreePagesTwoRequests ==
    \E i \in ParentIds :
      /\ Len(trace[i]) = 6
      /\ trace[i][1].ev = "yield"
      /\ trace[i][2].ev = "call"
      /\ trace[i][3].ev = "yield"
      /\ trace[i][4].ev = "call"
      /\ trace[i][5].ev = "yield"
      /\ ~ trace[i][5].pageInfo.hasNextPage
      /\ trace[i][6].ev = "stop"

\* A page that claims a next page but carries no cursor.
MissingCursor(event) ==
    event.ev = "yield" /\ event.pageInfo.hasNextPage /\ event.pageInfo.endCursor = Null

\* C9: after a page with hasNextPage = true and no end cursor the stream does
\* nothing more for that field: no request, no error, no further page; its
\* next advance passes to the parent's next field or reports exhaustion.
C9_MissingCursorStops ==
    \A i \in ParentIds : \A e \in 1..Len(trace[i]) :
      MissingCursor(trace[i][e]) =>
        \A d \in (e + 1)..Len(trace[i]) :
          /\ trace[i][d].field # trace[i][e].field
          /\ d = e + 1 => trace[i][d].ev \in {"yield", "stop"}

\* C9 witness: a re-queried page came without a cursor and the stream's next
\* advance reported exhaustion.
C9_StoppedOnMissingCursor ==
    \E i \in ParentIds : \E e \in 2..Len(trace[i]) :
      /\ MissingCursor(trace[i][e])
      /\ e < Len(trace[i])
      /\ trace[i][e + 1].ev = "stop"

\* The page task k of the wave brought (a first page is the parent's own list).
PageBrought(k) ==
    IF tasks[k].result.alias
    THEN FieldOf(projects[tasks[k].i], tasks[k].result.field).nodes
    ELSE tasks[k].result.nodes

ProductiveWave ==
    \E k \in 1..Len(tasks) : tasks[k].result.kind = "item" /\ PageBrought(k) # << >>

\* C10: a snapshot is yielded only by the merge of a wave in which some
\* advance brought a non-empty page; the merge of any other wave yields none.
C10_SnapshotOnlyAfterProgress ==
    [][ /\ out' # out => (mpc = "gather" /\ AllDone /\ ProductiveWave
                          /\ Len(out') = Len(out) + 1)
        /\ (mpc = "gather" /\ AllDone /\ ~ ProductiveWave) => out' = out
      ]_vars

\* C10 witness: a wave whose only page was empty has been merged and the
\* merger went on without yielding.
C10_EmptyWaveNoSnapshot ==
    /\ mpc = "loop"
    /\ tasks # << >>
    /\ AllDone
    /\ \E k \in 1..Len(tasks) :
         tasks[k].result.kind = "item" /\ ~ tasks[k].result.alias
    /\ \A k \in 1..Len(tasks) :
         tasks[k].result.kind = "item" =>
           (~ tasks[k].result.alias /\ tasks[k].result.nodes = << >>)

\* The record has no {nodes, pageInfo} field.
NoNestedField(rec) == FieldGenerators(rec) = << >>

\* C11: when the merger yields any snapshot for a batch, every parent of the
\* batch with no nested field is in the first snapshot, as the record that was
\* handed over.
C11_PlainParentInFirstSnapshot ==
    out # << >> =>
      \A i \in ParentIds :
        NoNestedField(batch[i]) =>
          \E x \in 1..Len(out[1]) : out[1][x] = SnapshotOf(batch[i])

\* No record of the batch handed to the merger has a {nodes, pageInfo} field.
NoNestedCollection ==
    mpc # "idle" /\ \A i \in ParentIds : NoNestedField(batch[i])

\* C12: for a batch without any nested collection the merger yields no
\* snapshot, raises nothing, issues no remote call, leaves the records as they
\* were handed over and ends: every stream is advanced at most once and
\* reports exhaustion, the active set is empty after the first wave, and the
\* merger has returned or can take its next step.
C12_NoNestedNoSnapshot ==
    NoNestedCollection =>
      /\ out = << >>
      /\ mpc # "raised"
      /\ Inflight = {}
      /\ \A i \in ParentIds :
           /\ Len(trace[i]) <= 1
           /\ \A e \in 1..Len(trace[i]) : trace[i][e].ev = "stop"
      /\ projects = batch
      /\ (mpc = "loop" /\ tasks # << >>) => active_data = << >>
      /\ mpc = "done" \/ ENABLED Next

\* C12 witness: the merger has returned for a batch without nested
\* collections, after one wave in which every stream reported exhaustion.
C12_EndedWithoutSnapshot ==
    /\ NoNestedCollection
    /\ mpc = "done"
    /\ \A i \in ParentIds : Len(trace[i]) = 1 /\ trace[i][1].ev = "stop"
    /\ Len(tasks) = BatchSize

\* C13: in both top-level paginators a request is sent once per page and only
\* a failed request stays without a response; when the call for page n fails
\* the generator raises on the pull that sent it, the batches of pages 1..n-1
\* have all been yielded, and nothing is requested or yielded afterwards.
C13_TopLevelFailureFatal ==
    /\ [](/\ \A k \in 1..Len(rlog) : rlog[k].page = k
          /\ Len(rlog) = Len(rsrv) + (IF rpc \in {"awaiting", "raised"} THEN 1 ELSE 0)
          /\ rpc = "raised" => (rout = rsrv /\ rpulls = Len(rlog))
          /\ Len(clog) = Len(csrv) + (IF cpc \in {"awaiting", "raised"} THEN 1 ELSE 0)
          /\ cpc = "raised" =>
               /\ Len(cout) = Len(csrv)
               /\ \A k \in 1..Len(csrv) : cout[k].nodes = csrv[k].nodes
               /\ cpulls = Len(clog))
    /\ [][ /\ rpc = "raised" => UNCHANGED rvars
           /\ cpc = "raised" => UNCHANGED cvars
           /\ (rpc' = "raised" /\ rpc # "raised") => (rlog' = rlog /\ rout' = rout)
           /\ (cpc' = "raised" /\ cpc # "raised") => (clog' = clog /\ cout' = cout)
         ]_vars

\* C13 witness: the REST request for page 3 failed after two batches were
\* yielded.
C13_RaisedOnThirdPage ==
    /\ rpc = "raised"
    /\ Len(rlog) = 3
    /\ Len(rout) = 2
    /\ rpulls = 3

\* The stream of record i raised while on field f.
FieldFailed(i, f) ==
    \E e \in 1..Len(trace[i]) : trace[i][e].ev = "exc" /\ trace[i][e].field = f

\* The stream of record i yielded the last page of field f: one with
\* hasNextPage = false, or one without a cursor.
FieldExhausted(i, f) ==
    \E e \in 1..Len(trace[i]) :
      /\ trace[i][e].ev = "yield"
      /\ trace[i][e].field = f
      /\ (~ trace[i][e].pageInfo.hasNextPage \/ trace[i][e].pageInfo.endCursor = Null)

\* C14: when the merger has returned, every nested field whose own pagination
\* did not fail has been paginated to its last page, whatever happened to the
\* other fields of the same parent and to the other parents.
C14_FailureOnlyCostsItsField ==
    mpc = "done" =>
      \A i \in ParentIds :
        \A j \in 1..Len(FieldGenerators(batch[i])) :
          LET f == FieldGenerators(batch[i])[j]
          IN  ~ FieldFailed(i, f) => FieldExhausted(i, f)

\* C15: a response of the top-level query that has nodes, hasNextPage = true
\* and no endCursor is the last one asked for: no query follows it.
C15_TopMissingCursorStops ==
    \A k \in 1..Len(csrv) :
      (csrv[k].nodes # << >> /\ csrv[k].pageInfo = PageInfo(TRUE, Null)) =>
        Len(clog) = k

\* A stream of the merger's batch issues a remote call in this step.
CallIssued ==
    \E i \in DOMAIN trace :
      /\ Len(trace'[i]) = Len(trace[i]) + 1
      /\ Last(trace'[i]).ev = "call"

\* C16: none of the three generators yields more than the consumer has asked
\* for; a remote call is issued only while a pull of the consumer is
\* unanswered; and while the consumer holds every element it asked for (it has
\* not pulled since the last yield) no call is outstanding and no advance of
\* the merger holds or awaits a slot.
C16_LazyPull ==
    /\ [](/\ Len(out) <= mpulls
          /\ Len(rout) <= rpulls
          /\ Len(cout) <= cpulls
          /\ (mpc # "idle" /\ Len(out) = mpulls) =>
               (mpc = "yielded" /\ AllDone /\ Inflight = {} /\ Waiting = {} /\ sem = K)
          /\ (rpc # "idle" /\ Len(rout) = rpulls) => rpc \in {"new", "yielded"}
          /\ (cpc # "idle" /\ Len(cout) = cpulls) => cpc \in {"new", "yielded"})
    /\ [][ /\ CallIssued => (mpulls' > Len(out') /\ mpulls > Len(out))
           /\ rlog' # rlog => rpulls' > Len(rout')
           /\ clog' # clog => cpulls' > Len(cout')
           /\ (Len(out) = mpulls /\ mpulls' = mpulls) => mvars' = mvars
           /\ (Len(rout) = rpulls /\ rpulls' = rpulls) => rvars' = rvars
           /\ (Len(cout) = cpulls /\ cpulls' = cpulls) => cvars' = cvars
         ]_vars

\* C16 witness: the merger has yielded its second snapshot, pairs with a
\* further page to request are still active, and nothing is outstanding.
C16_SuspendedWithWorkLeft ==
    /\ mpc = "yielded"
    /\ Len(out) = 2
    /\ mpulls = 2
    /\ \E k \in 1..Len(active_data) :
         LET g == gens[active_data[k]]
         IN  g.pc = "yielded" /\ g.page_info.hasNextPage /\ g.page_info.endCursor # Null
    /\ Inflight = {}

\* The batches the reference cursor paginator yields for the responses resps:
\* every response with nodes, in order, with one nested stream per record.
RECURSIVE RefCursorBatches(_, _)
RefCursorBatches(resps, k) ==
    IF k > Len(resps) \/ resps[k].nodes = << >>
    THEN << >>
    ELSE << [nodes |-> resps[k].nodes,
             generators |-> [j \in 1..Len(resps[k].nodes) |-> resps[k].nodes[j]]] >>
           \o RefCursorBatches(resps, k + 1)

\* C17: whatever the caller's variables, the first query carries no cursor,
\* every later query carries the endCursor of the response before it, the
\* batches yielded are the responses with nodes, in order, each with one nested
\* stream per record, and a response without nodes ends the sequence with no
\* yield and no further query.
C17_EqualsReferenceCursor ==
    /\ \A k \in 1..Len(clog) :
         clog[k] = IF k = 1 THEN Null ELSE csrv[k - 1].pageInfo.endCursor
    /\ cout = RefCursorBatches(csrv, 1)
    /\ \A k \in 1..Len(csrv) :
         csrv[k].nodes = << >> => (k = Len(csrv) /\ Len(clog) = k /\ cpc = "done")

\* C18: a slot is taken exactly while the remote call of an advance is
\* outstanding, whatever the advance resolves with; between waves no call is
\* outstanding and all K slots are free; and a record is written, or a
\* snapshot yielded, only in a step taken with no call outstanding.
C18_SlotsFreeAtWaveBoundary ==
    /\ [](/\ sem + Cardinality(Inflight) = K
          /\ WaveBoundary => (Inflight = {} /\ Waiting = {} /\ sem = K))
    /\ [][ (projects' # projects \/ out' # out) =>
             (Inflight = {} /\ sem = K /\ AllDone /\ UNCHANGED << sem, tasks >>)
         ]_vars

\* C18 witness: a wave with more advances than slots, in which an advance
\* raised, another reported exhaustion and another brought a page, has been
\* merged into the records with every slot free.
C18_AllReleasedAfterMixedWave ==
    /\ mpc = "yielded"
    /\ Len(tasks) > K
    /\ sem = K
    /\ \E k \in 1..Len(tasks) : tasks[k].result.kind = "exc"
    /\ \E k \in 1..Len(tasks) : tasks[k].result.kind = "stop"
    /\ \E k \in 1..Len(tasks) : tasks[k].result.kind = "item" /\ ~ tasks[k].result.alias

\* The records whose pair is in the active set.
ActiveParents == { active_data[k] : k \in 1..Len(active_data) }

\* The stream of record i has ended: its last advance reported exhaustion or
\* raised.
StreamEnded(i) == trace[i] # << >> /\ Last(trace[i]).ev \in {"stop", "exc"}

\* C19: the snapshot just yielded lists exactly the parents whose pair is in
\* the active set after the wave, which are those whose stream has not ended,
\* in the order of the batch, each as its record stands with everything merged
\* into it so far.
C19_SnapshotIsActiveSet ==
    mpc = "yielded" =>
      /\ Len(Last(out)) = Len(active_data)
      /\ \A k \in 1..Len(active_data) :
           Last(out)[k] = SnapshotOf(projects[active_data[k]])
      /\ \A k \in 1..Len(active_data) : \A l \in (k + 1)..Len(active_data) :
           active_data[k] < active_data[l]
      /\ \A i \in ParentIds : i \in ActiveParents <=> ~ StreamEnded(i)

\* C19 witness: a snapshot with the first and the third record of the batch,
\* yielded after the second record's stream had ended in an earlier wave.
C19_SnapshotSkipsEndedParent ==
    /\ mpc = "yielded"
    /\ Len(out) >= 2
    /\ active_data = << 1, 3 >>
    /\ Len(out[1]) = 3
    /\ Len(Last(out)) = 2
    /\ StreamEnded(2)

\* C20: in the merge of a wave, a pair whose advance reported exhaustion or
\* raised leaves the active set and its parent's record stays as it is; every
\* other pair of the wave stays active and its record gains only the page its
\* own advance brought; the records of parents dropped earlier are untouched.
C20_DropLeavesRecords ==
    [][ (mpc = "gather" /\ AllDone) =>
          /\ \A k \in 1..Len(tasks) :
               LET i == tasks[k].i
                   r == tasks[k].result
               IN  IF r.kind = "item"
                   THEN /\ \E l \in 1..Len(active_data') : active_data'[l] = i
                        /\ projects'[i] = IF PageBrought(k) = << >>
                                          THEN projects[i]
                                          ELSE ExtendNodes(projects[i], r.field, PageBrought(k))
                   ELSE /\ \A l \in 1..Len(active_data') : active_data'[l] # i
                        /\ projects'[i] = projects[i]
          /\ \A i \in ParentIds \ ActiveParents : projects'[i] = projects[i]
          /\ Len(active_data') =
               Cardinality({ k \in 1..Len(tasks) : tasks[k].result.kind = "item" })
      ]_vars

\* C20 witness: a pair was dropped in the wave just merged, on exhaustion
\* after a page without a cursor, its parent keeps the items merged before,
\* and another pair is still active.
C20_DroppedWithMergedItems ==
    /\ mpc \in {"yielded", "loop"}
    /\ active_data # << >>
    /\ \E k \in 1..Len(tasks) :
         LET i == tasks[k].i
         IN  /\ tasks[k].result.kind = "stop"
             /\ Len(trace[i]) >= 4
             /\ MissingCursor(trace[i][Len(trace[i]) - 1])
             /\ i \notin ActiveParents
             /\ Len(projects[i].fields[1].nodes) > Len(batch[i].fields[1].nodes)

\* The items of a record that is not the parent, as the server lists them.
DecoyItems == { 91, 92 }

Items(seq) == { seq[j] : j \in 1..Len(seq) }

\* C21: whatever the server answers to an outstanding re-query, the advance
\* yields the page and takes the page info of a record of the response that
\* has the parent's id, and raises when the response has none; no page yielded
\* after a request and no merged collection holds an item of another record;
\* and a stream that raised is not in the active set between waves.
C21_ReadsOwnRecord ==
    /\ \A k \in Inflight :
         LET i == tasks[k].i
         IN  \A resp \in Responses(projects[i], gens[i]) :
               LET o == OnResponse(projects[i], gens[i], resp)
               IN  IF resp.kind = "data"
                      /\ \E j \in 1..Len(resp.nodes) : resp.nodes[j].id = batch[i].id
                   THEN /\ o.kind = "item"
                        /\ \E j \in 1..Len(resp.nodes) :
                             /\ resp.nodes[j].id = batch[i].id
                             /\ o.nodes = resp.nodes[j].nodes
                             /\ o.gen.page_info = resp.nodes[j].pageInfo
                   ELSE o.kind = "exc" /\ o.gen.pc = "done"
    /\ \A i \in DOMAIN trace : \A e \in 2..Len(trace[i]) :
         (trace[i][e].ev = "yield" /\ trace[i][e - 1].ev = "call") =>
           /\ Items(trace[i][e].nodes) \cap DecoyItems = {}
           /\ trace[i][e].pageInfo # NoPageInfo
    /\ \A i \in DOMAIN projects : \A j \in 1..Len(projects[i].fields) :
         Items(projects[i].fields[j].nodes) \cap DecoyItems = {}
    /\ WaveBoundary =>
         \A i \in DOMAIN trace :
           (trace[i] # << >> /\ Last(trace[i]).ev = "exc") =>
             \A l \in 1..Len(active_data) : active_data[l] # i

\* C21 witness: a snapshot was yielded after a wave in which one re-query
\* brought the parent's page from a response that lists another record first
\* and another re-query raised.
C21_OwnPageBesideFailure ==
    /\ mpc = "yielded"
    /\ \E k \in 1..Len(tasks) :
         /\ tasks[k].result.kind = "item"
         /\ ~ tasks[k].result.alias
         /\ tasks[k].result.nodes = PageItems("labels", 2)
    /\ \E k \in 1..Len(tasks) : tasks[k].result.kind = "exc"

\* The advances of the stream of record i that reported its end.
EndEvents(i) == { e \in 1..Len(trace[i]) : trace[i][e].ev \in {"stop", "exc"} }

\* C22: the merger never stops before it has returned with an empty active
\* set (its streams being finite, every run then ends there); a pair outside
\* the active set is one whose stream has ended, and its stream was not
\* advanced again after it ended.
C22_ReachesEmptyActiveSet ==
    /\ (mpc = "done" /\ active_data = << >>) \/ ENABLED Next
    /\ Len(active_data) <= BatchSize
    /\ \A i \in ParentIds \ ActiveParents :
         StreamEnded(i) /\ Cardinality(EndEvents(i)) = 1

\* The advance of task k has not begun, or has not resolved yet.
Unresolved(k) == tasks[k].st \in {"pending", "waiting", "inflight"}

\* C23: the tasks of a wave are one per pair of the active set, in its order,
\* for distinct streams; a stream is advanced only by its own unresolved task
\* of the running wave, which appends one request while it stays unresolved
\* and one result when it resolves, and a resolved task never changes; the
\* wave is merged, and the next one begun, only when every task has resolved.
C23_OneAdvancePerPairPerWave ==
    /\ [](/\ mpc \in {"starting", "gather"} =>
               /\ Len(tasks) = Len(active_data)
               /\ \A k \in 1..Len(tasks) : tasks[k].i = active_data[k]
          /\ \A k \in 1..Len(tasks) : \A l \in 1..Len(tasks) :
               tasks[k].i = tasks[l].i => k = l
          /\ \A k \in 1..Len(tasks) :
               tasks[k].st = "inflight" =>
                 (trace[tasks[k].i] # << >> /\ Last(trace[tasks[k].i]).ev = "call"))
    /\ [][ /\ \A i \in DOMAIN trace :
                trace'[i] # trace[i] =>
                  /\ mpc \in {"starting", "gather"}
                  /\ Len(trace'[i]) = Len(trace[i]) + 1
                  /\ \E k \in 1..Len(tasks) :
                       /\ active_data[k] = i
                       /\ Unresolved(k)
                       /\ IF Last(trace'[i]).ev = "call"
                          THEN tasks[k].st # "inflight" /\ tasks'[k].st = "inflight"
                          ELSE tasks'[k].st = "done"
           /\ mpc \in {"starting", "gather"} /\ mpc' \in {"starting", "gather"} =>
                \A k \in 1..Len(tasks) :
                  tasks[k].st = "done" =>
                    (tasks'[k] = tasks[k] /\ trace'[tasks[k].i] = trace[tasks[k].i])
           /\ (mpc = "gather" /\ mpc' # "gather") => AllDone
           /\ (mpc' = "starting" /\ mpc # "starting") =>
                /\ AllDone
                /\ \A k \in 1..Len(tasks') : tasks'[k].st = "pending"
         ]_vars

\* C23 witness: the third wave is being gathered with one advance resolved,
\* one outstanding and the stream of a dropped pair left alone.
C23_ThirdWaveRunning ==
    /\ mpc = "gather"
    /\ Len(active_data) = 2
    /\ \E i \in ParentIds : StreamEnded(i) /\ i \notin ActiveParents
    /\ \E k \in 1..Len(tasks) : tasks[k].st = "done"
    /\ \E k \in 1..Len(tasks) :
         tasks[k].st = "inflight" /\ Len(trace[tasks[k].i]) >= 4

\* C24: a dict field with "nodes" but without "pageInfo" gets no stream, and
\* a snapshot with its record is built without an error and carries the field
\* as it was handed over; a field with both gets a stream.
C24_NodesOnlyCarriedOver ==
    /\ \A i \in ParentIds : \A j \in 1..Len(batch[i].fields) :
         LET fd == batch[i].fields[j]
         IN  /\ fd.kind = "nodesOnly" =>
                  /\ \A l \in 1..Len(FieldGenerators(batch[i])) :
                       FieldGenerators(batch[i])[l] # fd.name
                  /\ \A e \in 1..Len(trace[i]) : trace[i][e].field # fd.name
             /\ fd.kind = "coll" =>
                  \E l \in 1..Len(FieldGenerators(batch[i])) :
                    FieldGenerators(batch[i])[l] = fd.name
    /\ mpc # "raised"
    /\ \A a \in 1..Len(out) : \A x \in 1..Len(out[a]) :
         \A j \in 1..Len(out[a][x].fields) :
           out[a][x].fields[j].kind = "nodesOnly" =>
             out[a][x].fields[j] = SnapshotField(batch[out[a][x].id].fields[j])

\* The pages a stream has yielded for a field in answer to a request,
\* concatenated in the order of its requests.
RECURSIVE RequestedPages(_, _, _)
RequestedPages(t, field, e) ==
    IF e > Len(t)
    THEN << >>
    ELSE (IF e > 1 /\ t[e].ev = "yield" /\ t[e].field = field /\ t[e - 1].ev = "call"
          THEN t[e].nodes
          ELSE << >>)
           \o RequestedPages(t, field, e + 1)

\* C25: between waves, for a parent none of whose calls failed, a nested
\* field holds the first page it was handed over with followed by the pages
\* requested since, each once: no item occurs twice.
C25_EachItemOnce ==
    WaveBoundary =>
      \A i \in ParentIds :
        (\A e \in 1..Len(trace[i]) : trace[i][e].ev # "exc") =>
          \A j \in 1..Len(projects[i].fields) :
            LET fd == projects[i].fields[j]
            IN  /\ fd.nodes = batch[i].fields[j].nodes
                                \o RequestedPages(trace[i], fd.name, 1)
                /\ \A a \in 1..Len(fd.nodes) : \A b \in 1..Len(fd.nodes) :
                     fd.nodes[a] = fd.nodes[b] => a = b

\* C26: against the well-formed server, for the parents of the second or a
\* later top-level batch no re-query ends in an error (each response has the
\* parent), and when the merger has returned every nested field has been
\* paginated to its last page and holds the items of every page yielded.
C26_NestedCompletesForLaterBatches ==
    top >= 2 =>
      \A i \in ParentIds :
        /\ \A e \in 1..Len(trace[i]) : trace[i][e].ev # "exc"
        /\ mpc = "done" =>
             \A j \in 1..Len(FieldGenerators(batch[i])) :
               LET f == FieldGenerators(batch[i])[j]
               IN  /\ FieldExhausted(i, f)
                   /\ \A e \in 1..Len(trace[i]) :
                        (trace[i][e].ev = "yield" /\ trace[i][e].field = f) =>
                          Items(trace[i][e].nodes) \subseteq Items(FieldOf(projects[i], f).nodes)

\* The snapshots that contain record i.
SnapshotsWith(i) == { a \in 1..Len(out) : \E x \in 1..Len(out[a]) : out[a][x].id = i }

\* C27: between waves, every parent that has received items is in a snapshot,
\* and the last snapshot that contains it shows the record as it stands; so
\* the items a wave appended are in the snapshot yielded at the end of that
\* wave.
C27_LastSnapshotIsMergedState ==
    WaveBoundary =>
      \A i \in ParentIds :
        projects[i] # batch[i] =>
          /\ SnapshotsWith(i) # {}
          /\ LET a == CHOOSE b \in SnapshotsWith(i) : \A c \in SnapshotsWith(i) : c <= b
             IN  \E x \in 1..Len(out[a]) : out[a][x] = SnapshotOf(projects[i])

====
